---- MODULE Spec2Model ----
(***************************************************************************)
(* A model of the idfactor program: the fragment extractors, the secure    *)
(* shuffle, the fragment writers (writeToFile / writeToWriter), the        *)
(* orchestrator that runs five of them concurrently (main) and the         *)
(* identity map writer (WriteMapToFile / WriteMapToWriter).                *)
(***************************************************************************)
EXTENDS Integers, Sequences, FiniteSets, TLC

(***************************************************************************)
(* Bounds of the model.                                                    *)
(***************************************************************************)
\* longest record table handed to the orchestrator
MaxRecs == 2
\* number of distinct values the surrogate id generator can return
MaxUuid == 2
\* most non-empty fields of the records a lone extractor call is given
\* (besides the record with every field set)
MaxFilled == 2
\* largest n a lone Shuffle call is given
MaxN == 5
\* longest record table a lone fragment writer is given
MaxWriterRecs == 3

(***************************************************************************)
(* Field positions of a record (0-based, as in the source).                *)
(***************************************************************************)
RecordIDField == 0
FirstNameField == 1
LastNameField == 2
MiddleInitialField == 3
SuffixField == 4
DobField == 5
SsnField == 6
AddressLine1Field == 7
AddressLine2Field == 8
CityField == 9
StateField == 10
ZipField == 11
PhoneField == 12
EmailField == 13
RecordLength == 14

\* rec[f] of the source: Go slices are 0-based, TLA+ sequences 1-based
Field(rec, f) == rec[f + 1]

nameHeader == <<"name_id", "first_name", "last_name", "middle_initial", "suffix", "dob">>
ssnHeader == <<"ssn_id", "ssn">>
addressHeader == <<"address_id", "address_line_1", "address_line_2", "city", "state", "zip", "zip4">>
phoneHeader == <<"phone_id", "phone">>
emailHeader == <<"email_id", "email">>
mapHeader == <<"record_id", "name_id", "ssn_id", "address_id", "phone_id", "email_id">>

\* the five fragment kinds, in the column order of mapHeader
KindOrder == <<"name", "ssn", "address", "phone", "email">>
Kinds == {KindOrder[c] : c \in 1..Len(KindOrder)}

\* the header each Write<Kind>File passes to writeToFile
HeaderOf(k) ==
  CASE k = "name" -> nameHeader
    [] k = "ssn" -> ssnHeader
    [] k = "address" -> addressHeader
    [] k = "phone" -> phoneHeader
    [] k = "email" -> emailHeader

(***************************************************************************)
(* The extractors.  A nil slice is the empty sequence; log.Fatalf inside   *)
(* checkLength ends the process, which the extractors report as Halt.      *)
(***************************************************************************)
Nil == <<>>
Halt == <<"log.Fatalf">>

\* true if and only if a nonempty string is supplied
any(strs) == \E x \in 1..Len(strs) : strs[x] # ""

\* a test of the first string alone
noneOfFirst(strs) == strs[1] = ""

\* true if and only if no nonempty strings are supplied
none(strs) == ~any(strs)

\* checkLength lets the caller go on only when the record has RecordLength fields
checkLength(rec) == Len(rec) = RecordLength

ToNameDob(rec, id) ==
  IF ~checkLength(rec) THEN Halt
  ELSE IF none(<<Field(rec, FirstNameField), Field(rec, LastNameField),
                 Field(rec, MiddleInitialField), Field(rec, SuffixField),
                 Field(rec, DobField)>>)
       THEN Nil
       ELSE <<id, Field(rec, FirstNameField), Field(rec, LastNameField),
              Field(rec, MiddleInitialField), Field(rec, SuffixField),
              Field(rec, DobField)>>

\* an extractor that does not test for an empty ssn
ToSsnUnsuppressed(rec, id) ==
  IF ~checkLength(rec) THEN Halt
  ELSE <<id, Field(rec, SsnField)>>

ToSsn(rec, id) ==
  IF ~checkLength(rec) THEN Halt
  ELSE IF none(<<Field(rec, SsnField)>>)
       THEN Nil
       ELSE <<id, Field(rec, SsnField)>>

ToAddress(rec, id) ==
  IF ~checkLength(rec) THEN Halt
  ELSE IF none(<<Field(rec, AddressLine1Field), Field(rec, AddressLine2Field),
                 Field(rec, CityField), Field(rec, StateField),
                 Field(rec, ZipField)>>)
       THEN Nil
       ELSE <<id, Field(rec, AddressLine1Field), Field(rec, AddressLine2Field),
              Field(rec, CityField), Field(rec, StateField),
              Field(rec, ZipField), "">>

ToPhone(rec, id) ==
  IF ~checkLength(rec) THEN Halt
  ELSE IF none(<<Field(rec, PhoneField)>>)
       THEN Nil
       ELSE <<id, Field(rec, PhoneField)>>

ToEmail(rec, id) ==
  IF ~checkLength(rec) THEN Halt
  ELSE IF none(<<Field(rec, EmailField)>>)
       THEN Nil
       ELSE <<id, Field(rec, EmailField)>>

\* the ElementGetter each Write<Kind>File passes to writeToFile
Get(k, rec, id) ==
  CASE k = "name" -> ToNameDob(rec, id)
    [] k = "ssn" -> ToSsn(rec, id)
    [] k = "address" -> ToAddress(rec, id)
    [] k = "phone" -> ToPhone(rec, id)
    [] k = "email" -> ToEmail(rec, id)

(***************************************************************************)
(* Shuffle: the loop of shuffle.Shuffle, one draw j in [0, i] per index.   *)
(***************************************************************************)
\* an iteration that never leaves a[i] = i: a draw of i is taken for 0
ShuffleIterNeverStay(a, i, j) ==
  LET jj == IF j = i THEN 0 ELSE j
  IN [a EXCEPT ![i + 1] = a[jj + 1], ![jj + 1] = i]

\* an iteration that assigns a[j] first and a[i] second
ShuffleIterAssignReversed(a, i, j) == [a EXCEPT ![j + 1] = i, ![i + 1] = a[j + 1]]

\* an iteration that forgets to move a[j] to a[i]
ShuffleIterNoMove(a, i, j) == [a EXCEPT ![j + 1] = i]

\* one iteration: a[i], a[j] = a[j], i (both right-hand sides read first,
\* then a[i] and a[j] assigned in that order)
ShuffleIter(a, i, j) == [a EXCEPT ![i + 1] = a[j + 1], ![j + 1] = i]

\* a := make([]int, n)
ZeroArray(n) == [x \in 1..n |-> 0]

RECURSIVE ShuffleFrom(_, _, _)
ShuffleFrom(a, i, draws) ==
  IF i = Len(a) THEN a
  ELSE ShuffleFrom(ShuffleIter(a, i, draws[i + 1]), i + 1, draws)

\* the array Shuffle(n) returns when rand.Int returns draws[i+1] at index i
Shuffle(n, draws) == ShuffleFrom(ZeroArray(n), 0, draws)

\* the draw sequences rand.Int(rand.Reader, i+1) can produce for i = 0..n-1
DrawSeqs(n) == {d \in [1..n -> 0..(n - 1)] : \A x \in 1..n : d[x] <= x - 1}

(***************************************************************************)
(* Surrogate ids and Go maps.                                              *)
(***************************************************************************)
UuidName == <<"u1", "u2", "u3", "u4">>

\* the values uuid.New() can return
Uuids == {UuidName[x] : x \in 1..MaxUuid}

\* make(map[string]string), and the nil map of an unassigned variable
EmptyMap == [x \in {} |-> ""]

\* an update that is lost
MapPutLost(m, key, v) == m

\* an assignment that keeps the value a key already has
MapPutFirstWins(m, key, v) ==
  [x \in (DOMAIN m) \cup {key} |-> IF x \in DOMAIN m THEN m[x] ELSE v]

\* m[key] = v
MapPut(m, key, v) == [x \in (DOMAIN m) \cup {key} |-> IF x = key THEN v ELSE m[x]]

\* m[key]: the zero value "" when the key is absent
MapGet(m, key) == IF key \in DOMAIN m THEN m[key] ELSE ""

(***************************************************************************)
(* Sample records.                                                         *)
(***************************************************************************)
FullRec(id) ==
  <<id, "Ann", "Lee", "", "", "1980-01-01", "111-22-3333", "1 Main", "",
    "Springfield", "IL", "62701", "555-1212", "ann@x.com">>

NameOnlyRec(id) ==
  <<id, "Bo", "Kim", "", "", "", "", "", "", "", "", "", "", "">>

NameSsnRec(id) ==
  <<id, "Di", "Fox", "", "", "", "222-33-4444", "", "", "", "", "", "", "">>

\* a record of 13 fields
ShortRec(id) ==
  <<id, "Cy", "Roe", "", "", "", "", "", "", "", "", "", "">>

\* the record tables main is run on
Tables ==
  { t \in { <<>>,
            <<FullRec("1")>>,
            <<ShortRec("1")>>,
            <<NameSsnRec("1"), NameOnlyRec("2")>>,
            <<NameOnlyRec("1"), ShortRec("2")>>,
            <<NameOnlyRec("2"), NameOnlyRec("1"), NameSsnRec("3")>> } :
      Len(t) <= MaxRecs }

\* a record table in which two records carry the same record id
DupTable == <<NameOnlyRec("1"), NameSsnRec("1")>>

(***************************************************************************)
(* State.                                                                  *)
(***************************************************************************)
VARIABLES
  recs,      \* the record table (records of main)
  bufRows,   \* how many rows of this table fit in a csv.Writer's buffer
  mapfile,   \* the -m flag: "unread" until main tests it, then "set" or "empty"
  pcMain,    \* where main is
  workers,   \* the sync.WaitGroup counter
  res,       \* main's nameid, ssnid, addressid, phoneid, emailid
  fatal,     \* "none", or the log.Fatalf that ended the process
  pc,        \* where each writer goroutine is
  perm,      \* the permutation each writer drew
  pos,       \* how many indices of it the writer's loop has consumed
  idmap,     \* each writer's idmap
  gen,       \* how many surrogate ids each writer generated
  buf,       \* rows in each csv.Writer's buffer, not yet in the file
  sink,      \* rows that reached each element file
  created,   \* the element files os.Create made
  mapPos,    \* how many records WriteMapToWriter has written
  mapBuf,    \* rows in the map writer's buffer
  mapSink,   \* rows that reached the map file
  mapCreated, \* whether the map file was created
  shN,       \* Shuffle: its argument n
  shI,       \* Shuffle: the loop index i
  shA,       \* Shuffle: the array a
  shDraws,   \* Shuffle: the numbers rand.Int returned so far
  shPc,      \* Shuffle: where the call is
  exSchema,  \* extractor call: the package of the extractor
  exKind,    \* extractor call: the fragment kind
  exRec,     \* extractor call: the record
  exId,      \* extractor call: the surrogate id
  exOut,     \* extractor call: what it returned
  exPc,      \* extractor call: where the call is
  uuRand,    \* uuid.New: the 16 bytes the random source supplies
  uuU,       \* uuid.New: the byte slice u
  uuOut,     \* uuid.New: the string it returned, character by character
  uuPc       \* uuid.New: where the call is

vars == <<recs, bufRows, mapfile, pcMain, workers, res, fatal, pc, perm, pos, idmap, gen,
          buf, sink, created, mapPos, mapBuf, mapSink, mapCreated,
          shN, shI, shA, shDraws, shPc, exSchema, exKind, exRec, exId, exOut, exPc,
          uuRand, uuU, uuOut, uuPc>>

\* the state of the program run, of a lone Shuffle call, of a lone extractor
\* call, of a lone uuid.New call
runVars == <<recs, bufRows, mapfile, pcMain, workers, res, fatal, pc, perm, pos, idmap, gen,
             buf, sink, created, mapPos, mapBuf, mapSink, mapCreated>>
shuffleVars == <<shN, shI, shA, shDraws, shPc>>
extractVars == <<exSchema, exKind, exRec, exId, exOut, exPc>>
uuidVars == <<uuRand, uuU, uuOut, uuPc>>

\* what lives in the process's memory, and what lives in the file system
memVars == <<pcMain, workers, res, pc, perm, pos, idmap, gen, buf, mapPos, mapBuf>>
fileVars == <<sink, created, mapSink, mapCreated>>

Running == fatal = "none"

\* no Shuffle call of its own is under way
NoShuffleCall ==
  /\ shN = 0 /\ shI = 0 /\ shA = <<>> /\ shDraws = <<>> /\ shPc = "none"

\* no extractor call of its own is under way
NoExtractCall ==
  /\ exSchema = "none" /\ exKind = "none" /\ exRec = <<>> /\ exId = "" /\ exOut = <<>> /\ exPc = "none"

\* no uuid.New call of its own is under way
NoUuidCall == uuRand = <<>> /\ uuU = <<>> /\ uuOut = <<>> /\ uuPc = "none"

\* the state before main's reader.ReadAll(): recs holds the rows of the input
\* after its header row
InitWith(t, b) ==
  /\ NoShuffleCall
  /\ NoExtractCall
  /\ NoUuidCall
  /\ recs = t
  /\ bufRows = b
  /\ mapfile = "unread"
  /\ pcMain = "read"
  /\ workers = 0
  /\ res = [k \in Kinds |-> EmptyMap]
  /\ fatal = "none"
  /\ pc = [k \in Kinds |-> "idle"]
  /\ perm = [k \in Kinds |-> <<>>]
  /\ pos = [k \in Kinds |-> 0]
  /\ idmap = [k \in Kinds |-> EmptyMap]
  /\ gen = [k \in Kinds |-> 0]
  /\ buf = [k \in Kinds |-> <<>>]
  /\ sink = [k \in Kinds |-> <<>>]
  /\ created = {}
  /\ mapPos = 0
  /\ mapBuf = <<>>
  /\ mapSink = <<>>
  /\ mapCreated = FALSE

\* main on a table whose element files and map file are smaller than a
\* csv.Writer's buffer: a header and MaxRecs rows fit
SmallRows == MaxRecs + 1

Init == \E t \in Tables : InitWith(t, SmallRows)

\* log.Fatalf: os.Exit(1).  The process and its memory are gone (goroutines,
\* buffers, maps); only what reached the files stays.
Fatalf(why) ==
  /\ fatal' = why
  /\ pcMain' = "exited"
  /\ workers' = 0
  /\ res' = [k \in Kinds |-> EmptyMap]
  /\ pc' = [k \in Kinds |-> "exited"]
  /\ perm' = [k \in Kinds |-> <<>>]
  /\ pos' = [k \in Kinds |-> 0]
  /\ idmap' = [k \in Kinds |-> EmptyMap]
  /\ gen' = [k \in Kinds |-> 0]
  /\ buf' = [k \in Kinds |-> <<>>]
  /\ mapPos' = 0
  /\ mapBuf' = <<>>

(***************************************************************************)
(* main: the input, then the fan out.                                      *)
(***************************************************************************)
\* the csv.Reader accepts a row of reader.FieldsPerRecord fields
FieldsPerRecordOk(row) == Len(row) = RecordLength

\* records, err := reader.ReadAll(); log.Fatalf on an error, in.Close()
ReadAll ==
  /\ Running /\ pcMain = "read"
  /\ \/ /\ \A r \in 1..Len(recs) : FieldsPerRecordOk(recs[r])
        /\ pcMain' = "start"
        /\ UNCHANGED <<workers, res, fatal, pc, perm, pos, idmap, gen, buf,
                       mapPos, mapBuf>>
     \/ Fatalf("error reading file")
  /\ UNCHANGED <<recs, mapfile, fileVars>>
  /\ UNCHANGED <<bufRows, shuffleVars, extractVars, uuidVars>>

\* workers.Add(5) and the five go statements
Spawn ==
  /\ Running /\ pcMain = "start"
  /\ workers' = Cardinality(Kinds)
  /\ pc' = [k \in Kinds |-> "open"]
  /\ pcMain' = "wait"
  /\ UNCHANGED <<recs, mapfile, res, fatal, perm, pos, idmap, gen, buf, mapPos,
                 mapBuf, fileVars>>
  /\ UNCHANGED <<bufRows, shuffleVars, extractVars, uuidVars>>

(***************************************************************************)
(* A writer goroutine: writeToFile and writeToWriter.                      *)
(***************************************************************************)
\* writeToFile's os.Create(name), then writeToWriter's csv.NewWriter(w) and
\* writer.Write(header): the file exists and is empty, the header is in the
\* writer's buffer
Open(k) ==
  /\ Running /\ pc[k] = "open"
  /\ \/ /\ created' = created \cup {k}
        /\ buf' = [buf EXCEPT ![k] = <<HeaderOf(k)>>]
        /\ idmap' = [idmap EXCEPT ![k] = EmptyMap]
        /\ pc' = [pc EXCEPT ![k] = "shuffle"]
        /\ UNCHANGED <<fatal, pcMain, workers, res, perm, pos, gen, mapPos, mapBuf>>
     \/ /\ Fatalf("error creating file")
        /\ UNCHANGED created
  /\ UNCHANGED <<recs, mapfile, sink, mapSink, mapCreated>>
  /\ UNCHANGED <<bufRows, shuffleVars, extractVars, uuidVars>>

\* after the range loop's last index the writer goes on to Flush
AfterIndex(n, done) == IF done = n THEN "flush" ELSE "loop"

\* a test that lets n = 0 through
NotPositiveButZero(n) == n < 0

\* if n < 1
NotPositive(n) == n < 1

\* shuffle.Shuffle(len(recs)): fatal when n < 1 or when rand.Int fails
DoShuffle(k) ==
  /\ Running /\ pc[k] = "shuffle"
  /\ \/ /\ NotPositive(Len(recs))
        /\ Fatalf("shuffle: n must be positive")
     \/ /\ ~NotPositive(Len(recs))
        /\ Fatalf("shuffle: failed to generate random number")
     \/ /\ ~NotPositive(Len(recs))
        /\ \E d \in DrawSeqs(Len(recs)) :
             perm' = [perm EXCEPT ![k] = Shuffle(Len(recs), d)]
        /\ pos' = [pos EXCEPT ![k] = 0]
        /\ pc' = [pc EXCEPT ![k] = "loop"]
        /\ UNCHANGED <<fatal, pcMain, workers, res, idmap, gen, buf, mapPos, mapBuf>>
  /\ UNCHANGED <<recs, mapfile, fileVars>>
  /\ UNCHANGED <<bufRows, shuffleVars, extractVars, uuidVars>>

\* the proper prefixes of the rows q: what a failed write left in the file
ShortWrites(q) == {SubSeq(q, 1, m) : m \in 0..(Len(q) - 1)}

\* the rows handed to the writer of kind k so far, header first
Written(k) == sink[k] \o buf[k]

\* the surrogate ids of the data rows handed to the writer of kind k
UsedUuids(k) == {Written(k)[x][1] : x \in 2..Len(Written(k))}

\* uuid.New() returns 16 random bytes as text.  The program copies ids and
\* never looks inside one, so only which draws are equal matters: a draw either
\* repeats an id of an earlier row or is the next unused name of the pool.
NewUuids(k) ==
  UsedUuids(k) \cup
    {UuidName[x] : x \in {y \in 1..MaxUuid : y = Cardinality(UsedUuids(k)) + 1}}

\* "for i := range": the position in the permutation, not the value there
RangeIndexOnly(p, n) == n

\* "for _, i := range shuffle.Shuffle(len(recs))": the value the loop gets in
\* its n-th iteration (from 0)
RangeValue(p, n) == p[n + 1]

\* a loop that calls uuid.New() only for an element it writes
IdsAfterKept(g, elem) == IF elem = Nil THEN g ELSE g + 1

\* elemid := uuid.New() at the head of the iteration: the number of ids
\* generated after an iteration whose getter returned elem
IdsAfter(g, elem) == g + 1

\* one iteration of the range loop over the permutation
Row(k) ==
  /\ Running /\ pc[k] = "loop" /\ pos[k] < Len(perm[k])
  /\ LET i == RangeValue(perm[k], pos[k])
         rec == recs[i + 1]
         id == Field(rec, RecordIDField)
         goOn == /\ pos' = [pos EXCEPT ![k] = @ + 1]
                 /\ pc' = [pc EXCEPT ![k] = AfterIndex(Len(perm[k]), pos[k] + 1)]
                 /\ UNCHANGED <<fatal, pcMain, workers, res, perm, mapPos, mapBuf>>
     IN \/ \* uuid.New(): rand.Read fails
           /\ Fatalf("uuid: failed reading random bytes")
           /\ UNCHANGED sink
        \/ \E elemid \in NewUuids(k) :
             LET elem == Get(k, rec, elemid) IN
             \/ \* checkLength
                /\ elem = Halt
                /\ Fatalf("bad record length")
                /\ UNCHANGED sink
             \/ \* a nil element is not written
                /\ elem = Nil
                /\ gen' = [gen EXCEPT ![k] = IdsAfter(@, elem)]
                /\ goOn
                /\ UNCHANGED <<idmap, buf, sink>>
             \/ \* writer.Write(elem): the row fits in the buffer
                /\ elem # Halt /\ elem # Nil
                /\ Len(buf[k]) < bufRows
                /\ gen' = [gen EXCEPT ![k] = IdsAfter(@, elem)]
                /\ buf' = [buf EXCEPT ![k] = Append(@, elem)]
                /\ idmap' = [idmap EXCEPT ![k] = MapPut(@, id, elemid)]
                /\ goOn
                /\ UNCHANGED sink
             \/ \* writer.Write(elem): the buffer is full, it goes to the file
                \* and the row starts the next buffer
                /\ elem # Halt /\ elem # Nil
                /\ Len(buf[k]) >= bufRows
                /\ gen' = [gen EXCEPT ![k] = IdsAfter(@, elem)]
                /\ sink' = [sink EXCEPT ![k] = @ \o buf[k]]
                /\ buf' = [buf EXCEPT ![k] = <<elem>>]
                /\ idmap' = [idmap EXCEPT ![k] = MapPut(@, id, elemid)]
                /\ goOn
             \/ \* writer.Write(elem): writing the full buffer to the file fails
                /\ elem # Halt /\ elem # Nil
                /\ Len(buf[k]) >= bufRows
                /\ \E w \in ShortWrites(buf[k]) :
                     sink' = [sink EXCEPT ![k] = @ \o w]
                /\ Fatalf("error writing element")
  /\ UNCHANGED <<recs, mapfile, created, mapSink, mapCreated>>
  /\ UNCHANGED <<bufRows, shuffleVars, extractVars, uuidVars>>

\* writer.Flush(), writer.Error(), return idmap: the buffer reaches the file,
\* or log.Fatalf
Flush(k) ==
  /\ Running /\ pc[k] = "flush"
  /\ \/ /\ sink' = [sink EXCEPT ![k] = @ \o buf[k]]
        /\ buf' = [buf EXCEPT ![k] = <<>>]
        /\ perm' = [perm EXCEPT ![k] = <<>>]
        /\ pos' = [pos EXCEPT ![k] = 0]
        /\ pc' = [pc EXCEPT ![k] = "close"]
        /\ UNCHANGED <<fatal, pcMain, workers, res, idmap, gen, mapPos, mapBuf>>
     \/ /\ buf[k] # <<>>
        /\ \E w \in ShortWrites(buf[k]) :
             sink' = [sink EXCEPT ![k] = @ \o w]
        /\ Fatalf("error flushing writer")
  /\ UNCHANGED <<recs, mapfile, created, mapSink, mapCreated>>
  /\ UNCHANGED <<bufRows, shuffleVars, extractVars, uuidVars>>

\* goroutines that all assign nameid
ResultVarShared(k) == "name"

\* the variable of main the goroutine of kind k assigns: nameid, ssnid,
\* addressid, phoneid or emailid
ResultVar(k) == k

\* a goroutine that returns without workers.Done()
DoneForgotten(w) == w

\* workers.Done(): the WaitGroup counter after it
Done(w) == w - 1

\* writeToFile's file.Close() and return; then, in main's goroutine,
\* nameid = idfactor.WriteNameDobFile(records, filename); workers.Done()
Finish(k) ==
  /\ Running /\ pc[k] = "close"
  /\ \/ /\ res' = [res EXCEPT ![ResultVar(k)] = idmap[k]]
        /\ workers' = Done(workers)
        /\ pc' = [pc EXCEPT ![k] = "done"]
        /\ UNCHANGED <<fatal, pcMain, perm, pos, idmap, gen, buf, mapPos, mapBuf>>
     \/ Fatalf("error closing file")
  /\ UNCHANGED <<recs, mapfile, fileVars>>
  /\ UNCHANGED <<bufRows, shuffleVars, extractVars, uuidVars>>

Writer(k) ==
  \/ Open(k)
  \/ DoShuffle(k)
  \/ Row(k)
  \/ Flush(k)
  \/ Finish(k)

(***************************************************************************)
(* main: join, then the identity map.                                      *)
(***************************************************************************)
\* a Wait() that returns while a writer is still at work
WaitReturnsEarly == workers <= 1

\* a Wait() that does not wait
WaitReturnsAtOnce == TRUE

\* workers.Wait() returns once the counter is zero
WaitReturns == workers = 0

\* a main that writes the map whatever the flag
AfterWaitAlwaysMap(m) == "mapcreate"

\* if mapfile != "" { WriteMapToFile }: where main goes after the wait
AfterWait(m) == IF m = "set" THEN "mapcreate" ELSE "exit"

\* workers.Wait(), then "if mapfile != """
Join ==
  /\ Running /\ pcMain = "wait" /\ WaitReturns
  /\ \E m \in {"set", "empty"} :
       /\ mapfile' = m
       /\ pcMain' = AfterWait(m)
  /\ UNCHANGED <<recs, workers, res, fatal, pc, perm, pos, idmap, gen, buf,
                 mapPos, mapBuf, fileVars>>
  /\ UNCHANGED <<bufRows, shuffleVars, extractVars, uuidVars>>

\* WriteMapToFile: os.Create(name); WriteMapToWriter: writer.Write(mapHeader)
MapOpen ==
  /\ Running /\ pcMain = "mapcreate"
  /\ \/ /\ mapCreated' = TRUE
        /\ mapBuf' = <<mapHeader>>
        /\ mapPos' = 0
        /\ pcMain' = IF Len(recs) = 0 THEN "mapflush" ELSE "maprow"
        /\ UNCHANGED <<fatal, workers, res, pc, perm, pos, idmap, gen, buf>>
     \/ /\ Fatalf("error creating map file")
        /\ UNCHANGED mapCreated
  /\ UNCHANGED <<recs, mapfile, sink, created, mapSink>>
  /\ UNCHANGED <<bufRows, shuffleVars, extractVars, uuidVars>>

\* a row whose ssn and address cells are in each other's place
MapRowOfSwapped(rec, nameid, ssnid, addressid, phoneid, emailid) ==
  LET id == Field(rec, RecordIDField)
  IN <<id, MapGet(nameid, id), MapGet(addressid, id), MapGet(ssnid, id),
       MapGet(phoneid, id), MapGet(emailid, id)>>

\* the row WriteMapToWriter builds for a record
MapRowOf(rec, nameid, ssnid, addressid, phoneid, emailid) ==
  LET id == Field(rec, RecordIDField)
  IN <<id, MapGet(nameid, id), MapGet(ssnid, id), MapGet(addressid, id),
       MapGet(phoneid, id), MapGet(emailid, id)>>

\* a range loop that walks the table from its end
MapRecordAtReversed(p) == recs[Len(recs) - p]

\* the record the p-th iteration (from 0) of "for _, rec := range recs" gets
MapRecordAt(p) == recs[p + 1]

\* one iteration of "for _, rec := range recs"
MapRow ==
  /\ Running /\ pcMain = "maprow" /\ mapPos < Len(recs)
  /\ LET out == MapRowOf(MapRecordAt(mapPos), res["name"], res["ssn"],
                         res["address"], res["phone"], res["email"])
         goOn == /\ mapPos' = mapPos + 1
                 /\ pcMain' = IF mapPos + 1 = Len(recs) THEN "mapflush" ELSE "maprow"
                 /\ UNCHANGED <<fatal, workers, res, pc, perm, pos, idmap, gen, buf>>
     IN \/ /\ Len(mapBuf) < bufRows
           /\ mapBuf' = Append(mapBuf, out)
           /\ goOn
           /\ UNCHANGED mapSink
        \/ /\ Len(mapBuf) >= bufRows
           /\ mapSink' = mapSink \o mapBuf
           /\ mapBuf' = <<out>>
           /\ goOn
        \/ /\ Len(mapBuf) >= bufRows
           /\ \E w \in ShortWrites(mapBuf) : mapSink' = mapSink \o w
           /\ Fatalf("error writing map file")
  /\ UNCHANGED <<recs, mapfile, sink, created, mapCreated>>
  /\ UNCHANGED <<bufRows, shuffleVars, extractVars, uuidVars>>

\* writer.Flush(), writer.Error()
MapFlush ==
  /\ Running /\ pcMain = "mapflush"
  /\ \/ /\ mapSink' = mapSink \o mapBuf
        /\ mapBuf' = <<>>
        /\ pcMain' = "mapclose"
        /\ UNCHANGED <<fatal, workers, res, pc, perm, pos, idmap, gen, buf, mapPos>>
     \/ /\ mapBuf # <<>>
        /\ \E w \in ShortWrites(mapBuf) : mapSink' = mapSink \o w
        /\ Fatalf("error flushing map writer")
  /\ UNCHANGED <<recs, mapfile, sink, created, mapCreated>>
  /\ UNCHANGED <<bufRows, shuffleVars, extractVars, uuidVars>>

\* WriteMapToFile: file.Close(), and main returns
MapClose ==
  /\ Running /\ pcMain = "mapclose"
  /\ \/ /\ pcMain' = "exit"
        /\ UNCHANGED <<fatal, workers, res, pc, perm, pos, idmap, gen, buf,
                       mapPos, mapBuf>>
     \/ Fatalf("error closing map file")
  /\ UNCHANGED <<recs, mapfile, fileVars>>
  /\ UNCHANGED <<bufRows, shuffleVars, extractVars, uuidVars>>

Next ==
  \/ ReadAll
  \/ Spawn
  \/ \E k \in Kinds : Writer(k)
  \/ Join
  \/ MapOpen
  \/ MapRow
  \/ MapFlush
  \/ MapClose

Spec == Init /\ [][Next]_vars

\* the steps of main's own goroutine
MainStep ==
  \/ ReadAll
  \/ Spawn
  \/ Join
  \/ MapOpen
  \/ MapRow
  \/ MapFlush
  \/ MapClose

\* the Go scheduler runs every goroutine that can run: main and each writer
\* goroutine that has a step to take eventually takes one
Fairness ==
  /\ WF_vars(MainStep)
  /\ \A k \in Kinds : WF_vars(Writer(k))

\* the tables of the fair runs: none or one record
FairTables == {t \in Tables : Len(t) <= 1}

InitFair == \E t \in FairTables : InitWith(t, SmallRows)

SpecFair == InitFair /\ [][Next]_vars /\ Fairness


(***************************************************************************)
(* A lone fragment writer: a caller of the library runs one of             *)
(* WriteNameDobFile, WriteSsnFile, WriteAddressFile, WritePhoneFile,       *)
(* WriteEmailFile on a table of its own.                                   *)
(***************************************************************************)
\* the records the caller's tables are made of: two share the record id "1",
\* one is short; a table may hold a record more than once
WriterRecs ==
  {NameOnlyRec("1"), FullRec("2"), NameSsnRec("1"), ShortRec("3")}

RECURSIVE SeqsUpTo(_, _)
\* the sequences over S of length at most n
SeqsUpTo(S, n) ==
  IF n = 0 THEN {<<>>}
  ELSE LET shorter == SeqsUpTo(S, n - 1)
       IN shorter \cup {Append(q, x) : q \in shorter, x \in S}

WriterTables == SeqsUpTo(WriterRecs, MaxWriterRecs)

\* the caller is in its call of Write<Kind>File(t, name); rows of the table
\* may be as large as the csv.Writer's buffer (b = 1) or smaller
InitWriter ==
  \E t \in WriterTables, k0 \in Kinds, b \in {1, MaxWriterRecs + 1} :
    /\ NoShuffleCall
    /\ NoExtractCall
    /\ NoUuidCall
    /\ recs = t
    /\ bufRows = b
    /\ mapfile = "unread"
    /\ pcMain = "caller"
    /\ workers = 1
    /\ res = [k \in Kinds |-> EmptyMap]
    /\ fatal = "none"
    /\ pc = [k \in Kinds |-> IF k = k0 THEN "open" ELSE "idle"]
    /\ perm = [k \in Kinds |-> <<>>]
    /\ pos = [k \in Kinds |-> 0]
    /\ idmap = [k \in Kinds |-> EmptyMap]
    /\ gen = [k \in Kinds |-> 0]
    /\ buf = [k \in Kinds |-> <<>>]
    /\ sink = [k \in Kinds |-> <<>>]
    /\ created = {}
    /\ mapPos = 0
    /\ mapBuf = <<>>
    /\ mapSink = <<>>
    /\ mapCreated = FALSE

NextWriter == \E k \in Kinds : Writer(k)

SpecWriter == InitWriter /\ [][NextWriter]_vars

(***************************************************************************)
(* main on the table of two records of the end-to-end example.             *)
(***************************************************************************)
ExampleTable == <<FullRec("1"), NameOnlyRec("2")>>

InitExample == InitWith(ExampleTable, Len(ExampleTable) + 1)

SpecExample == InitExample /\ [][Next]_vars

(***************************************************************************)
(* main on a table in which two records carry the same record id.          *)
(***************************************************************************)
InitDup == InitWith(DupTable, Len(DupTable) + 1)

SpecDup == InitDup /\ [][Next]_vars


(***************************************************************************)
(* A lone call of shuffle.Shuffle(n), statement by statement.              *)
(***************************************************************************)
\* no program run is under way
NoRun ==
  /\ recs = <<>> /\ bufRows = 0 /\ mapfile = "unread" /\ pcMain = "none"
  /\ workers = 0 /\ res = [k \in Kinds |-> EmptyMap] /\ fatal = "none"
  /\ pc = [k \in Kinds |-> "idle"] /\ perm = [k \in Kinds |-> <<>>]
  /\ pos = [k \in Kinds |-> 0] /\ idmap = [k \in Kinds |-> EmptyMap]
  /\ gen = [k \in Kinds |-> 0] /\ buf = [k \in Kinds |-> <<>>]
  /\ sink = [k \in Kinds |-> <<>>] /\ created = {} /\ mapPos = 0
  /\ mapBuf = <<>> /\ mapSink = <<>> /\ mapCreated = FALSE

InitShuffle ==
  /\ NoRun
  /\ NoExtractCall
  /\ NoUuidCall
  /\ shN \in (0 - 1)..MaxN
  /\ shI = 0
  /\ shA = <<>>
  /\ shDraws = <<>>
  /\ shPc = "call"

\* if n < 1 { log.Fatal }; a := make([]int, n); i := 0
ShEnter ==
  /\ shPc = "call"
  /\ IF NotPositive(shN)
       THEN /\ shPc' = "fatal: n must be positive"
            /\ UNCHANGED <<shA, shI>>
       ELSE /\ shA' = ZeroArray(shN)
            /\ shI' = 0
            /\ shPc' = "loop"
  /\ UNCHANGED <<shN, shDraws, runVars, extractVars, uuidVars>>

\* one iteration: J := rand.Int(rand.Reader, i+1), the swap, i++
ShDraw ==
  /\ shPc = "loop" /\ shI # shN
  /\ \/ /\ shPc' = "fatal: failed to generate random number"
        /\ UNCHANGED <<shA, shI, shDraws>>
     \/ \E j \in 0..shI :
          /\ shA' = ShuffleIter(shA, shI, j)
          /\ shDraws' = Append(shDraws, j)
          /\ shI' = shI + 1
          /\ UNCHANGED shPc
  /\ UNCHANGED <<shN, runVars, extractVars, uuidVars>>

\* i == n: return a
ShReturn ==
  /\ shPc = "loop" /\ shI = shN
  /\ shPc' = "return"
  /\ UNCHANGED <<shN, shI, shA, shDraws, runVars, extractVars, uuidVars>>

NextShuffle ==
  \/ ShEnter
  \/ ShDraw
  \/ ShReturn

SpecShuffle == InitShuffle /\ [][NextShuffle]_vars


(***************************************************************************)
(* The extractors of package compromised: a record carries a breach id     *)
(* after the record id, a fragment carries it before the surrogate id.     *)
(***************************************************************************)
compromisedRecordIDField == 0
compromisedBreachIDField == 1
compromisedFirstNameField == 2
compromisedLastNameField == 3
compromisedMiddleInitialField == 4
compromisedSuffixField == 5
compromisedDobField == 6
compromisedSsnField == 7
compromisedAddressLine1Field == 8
compromisedAddressLine2Field == 9
compromisedCityField == 10
compromisedStateField == 11
compromisedZipField == 12
compromisedPhoneField == 13
compromisedEmailField == 14
compromisedRecordLength == 15

\* idfactor.None(strs...): no nonempty string is supplied
None(strs) == \A x \in 1..Len(strs) : strs[x] = ""

compromisedCheckLength(rec) == Len(rec) = compromisedRecordLength

compromisedToNameDob(rec, id) ==
  IF ~compromisedCheckLength(rec) THEN Halt
  ELSE LET fields == <<Field(rec, compromisedFirstNameField),
                       Field(rec, compromisedLastNameField),
                       Field(rec, compromisedMiddleInitialField),
                       Field(rec, compromisedSuffixField),
                       Field(rec, compromisedDobField)>>
       IN IF None(fields) THEN Nil
          ELSE <<Field(rec, compromisedBreachIDField), id>> \o fields

compromisedToSsn(rec, id) ==
  IF ~compromisedCheckLength(rec) THEN Halt
  ELSE IF None(<<Field(rec, compromisedSsnField)>>) THEN Nil
       ELSE <<Field(rec, compromisedBreachIDField), id,
              Field(rec, compromisedSsnField)>>

compromisedToAddress(rec, id) ==
  IF ~compromisedCheckLength(rec) THEN Halt
  ELSE LET fields == <<Field(rec, compromisedAddressLine1Field),
                       Field(rec, compromisedAddressLine2Field),
                       Field(rec, compromisedCityField),
                       Field(rec, compromisedStateField),
                       Field(rec, compromisedZipField)>>
       IN IF None(fields) THEN Nil
          ELSE <<Field(rec, compromisedBreachIDField), id>> \o Append(fields, "")

compromisedToPhone(rec, id) ==
  IF ~compromisedCheckLength(rec) THEN Halt
  ELSE IF None(<<Field(rec, compromisedPhoneField)>>) THEN Nil
       ELSE <<Field(rec, compromisedBreachIDField), id,
              Field(rec, compromisedPhoneField)>>

compromisedToEmail(rec, id) ==
  IF ~compromisedCheckLength(rec) THEN Halt
  ELSE IF None(<<Field(rec, compromisedEmailField)>>) THEN Nil
       ELSE <<Field(rec, compromisedBreachIDField), id,
              Field(rec, compromisedEmailField)>>

compromisedToNameAddress(rec, id) ==
  IF ~compromisedCheckLength(rec) THEN Halt
  ELSE LET fields == <<Field(rec, compromisedFirstNameField),
                       Field(rec, compromisedLastNameField),
                       Field(rec, compromisedMiddleInitialField),
                       Field(rec, compromisedSuffixField),
                       Field(rec, compromisedAddressLine1Field),
                       Field(rec, compromisedAddressLine2Field),
                       Field(rec, compromisedCityField),
                       Field(rec, compromisedStateField),
                       Field(rec, compromisedZipField)>>
       IN IF None(fields) THEN Nil
          ELSE <<Field(rec, compromisedBreachIDField), id>> \o Append(fields, "")

compromisedToNamePhone(rec, id) ==
  IF ~compromisedCheckLength(rec) THEN Halt
  ELSE LET fields == <<Field(rec, compromisedFirstNameField),
                       Field(rec, compromisedLastNameField),
                       Field(rec, compromisedMiddleInitialField),
                       Field(rec, compromisedSuffixField),
                       Field(rec, compromisedPhoneField)>>
       IN IF None(fields) THEN Nil
          ELSE <<Field(rec, compromisedBreachIDField), id>> \o fields

CompromisedKinds ==
  {"name", "ssn", "address", "phone", "email", "nameaddress", "namephone"}

compromisedGet(k, rec, id) ==
  CASE k = "name" -> compromisedToNameDob(rec, id)
    [] k = "ssn" -> compromisedToSsn(rec, id)
    [] k = "address" -> compromisedToAddress(rec, id)
    [] k = "phone" -> compromisedToPhone(rec, id)
    [] k = "email" -> compromisedToEmail(rec, id)
    [] k = "nameaddress" -> compromisedToNameAddress(rec, id)
    [] k = "namephone" -> compromisedToNamePhone(rec, id)

(***************************************************************************)
(* Package atrisk: the record layout of package idfactor, seven fragment   *)
(* kinds.                                                                  *)
(***************************************************************************)
atriskRecordIDField == 0
atriskFirstNameField == 1
atriskLastNameField == 2
atriskMiddleInitialField == 3
atriskSuffixField == 4
atriskDobField == 5
atriskSsnField == 6
atriskAddressLine1Field == 7
atriskAddressLine2Field == 8
atriskCityField == 9
atriskStateField == 10
atriskZipField == 11
atriskPhoneField == 12
atriskEmailField == 13
atriskRecordLength == 14

\* idfactor.AllEmpty: every string is empty
AllEmpty(strs) == \A x \in 1..Len(strs) : strs[x] = ""

atriskCheckLength(rec) == Len(rec) = atriskRecordLength

atriskToNameDob(rec, id) ==
  IF ~atriskCheckLength(rec) THEN Halt
  ELSE IF AllEmpty(<<Field(rec, atriskFirstNameField), Field(rec, atriskLastNameField), Field(rec, atriskMiddleInitialField), Field(rec, atriskSuffixField), Field(rec, atriskDobField)>>) THEN Nil
  ELSE <<id, Field(rec, atriskFirstNameField), Field(rec, atriskLastNameField), Field(rec, atriskMiddleInitialField), Field(rec, atriskSuffixField), Field(rec, atriskDobField)>>

atriskToSsn(rec, id) ==
  IF ~atriskCheckLength(rec) THEN Halt
  ELSE IF AllEmpty(<<Field(rec, atriskSsnField)>>) THEN Nil
  ELSE <<id, Field(rec, atriskSsnField)>>

atriskToAddress(rec, id) ==
  IF ~atriskCheckLength(rec) THEN Halt
  ELSE IF AllEmpty(<<Field(rec, atriskAddressLine1Field), Field(rec, atriskAddressLine2Field), Field(rec, atriskCityField), Field(rec, atriskStateField), Field(rec, atriskZipField)>>) THEN Nil
  ELSE <<id, Field(rec, atriskAddressLine1Field), Field(rec, atriskAddressLine2Field), Field(rec, atriskCityField), Field(rec, atriskStateField), Field(rec, atriskZipField), "">>

atriskToPhone(rec, id) ==
  IF ~atriskCheckLength(rec) THEN Halt
  ELSE IF AllEmpty(<<Field(rec, atriskPhoneField)>>) THEN Nil
  ELSE <<id, Field(rec, atriskPhoneField)>>

atriskToEmail(rec, id) ==
  IF ~atriskCheckLength(rec) THEN Halt
  ELSE IF AllEmpty(<<Field(rec, atriskEmailField)>>) THEN Nil
  ELSE <<id, Field(rec, atriskEmailField)>>

atriskToNameAddress(rec, id) ==
  IF ~atriskCheckLength(rec) THEN Halt
  ELSE LET fields == <<Field(rec, atriskFirstNameField),
                       Field(rec, atriskLastNameField),
                       Field(rec, atriskMiddleInitialField),
                       Field(rec, atriskSuffixField),
                       Field(rec, atriskAddressLine1Field),
                       Field(rec, atriskAddressLine2Field),
                       Field(rec, atriskCityField),
                       Field(rec, atriskStateField),
                       Field(rec, atriskZipField)>>
       IN IF AllEmpty(fields) THEN Nil
          ELSE <<id>> \o fields

atriskToNamePhone(rec, id) ==
  IF ~atriskCheckLength(rec) THEN Halt
  ELSE LET fields == <<Field(rec, atriskFirstNameField),
                       Field(rec, atriskLastNameField),
                       Field(rec, atriskMiddleInitialField),
                       Field(rec, atriskSuffixField),
                       Field(rec, atriskPhoneField)>>
       IN IF AllEmpty(fields) THEN Nil
          ELSE <<id>> \o fields

AtRiskKinds ==
  {"name", "ssn", "address", "phone", "email", "nameaddress", "namephone"}

atriskGet(k, rec, id) ==
  CASE k = "name" -> atriskToNameDob(rec, id)
    [] k = "ssn" -> atriskToSsn(rec, id)
    [] k = "address" -> atriskToAddress(rec, id)
    [] k = "phone" -> atriskToPhone(rec, id)
    [] k = "email" -> atriskToEmail(rec, id)
    [] k = "nameaddress" -> atriskToNameAddress(rec, id)
    [] k = "namephone" -> atriskToNamePhone(rec, id)

\* the header Write<Kind>File of package atrisk passes with the getter
atriskHeaderOf(k) ==
  CASE k = "name" -> <<"name_id", "first_name", "last_name", "middle_initial", "suffix", "dob">>
    [] k = "ssn" -> <<"ssn_id", "ssn">>
    [] k = "address" -> <<"address_id", "address_line_1", "address_line_2", "city", "state", "zip", "zip4">>
    [] k = "phone" -> <<"phone_id", "phone">>
    [] k = "email" -> <<"email_id", "email">>
    [] k = "nameaddress" -> <<"name_address_id", "first_name", "last_name", "middle_initial", "suffix",
                              "address_line_1", "address_line_2", "city", "state", "zip", "zip4">>
    [] k = "namephone" -> <<"name_phone_id", "first_name", "last_name", "middle_initial", "suffix", "phone">>

\* the header Write<Kind>File of package compromised passes with the getter
compromisedHeaderOf(k) ==
  CASE k = "name" -> <<"breach_id", "name_id", "first_name", "last_name", "middle_initial", "suffix", "dob">>
    [] k = "ssn" -> <<"breach_id", "ssn_id", "ssn">>
    [] k = "address" -> <<"breach_id", "address_id", "address_line_1", "address_line_2", "city", "state", "zip", "zip4">>
    [] k = "phone" -> <<"breach_id", "phone_id", "phone">>
    [] k = "email" -> <<"breach_id", "email_id", "email">>
    [] k = "nameaddress" -> <<"breach_id", "name_address_id", "first_name", "last_name", "middle_initial", "suffix",
                              "address_line_1", "address_line_2", "city", "state", "zip", "zip4">>
    [] k = "namephone" -> <<"breach_id", "name_phone_id", "first_name", "last_name", "middle_initial", "suffix", "phone">>

(***************************************************************************)
(* A lone call of an extractor.                                            *)
(***************************************************************************)
\* a value for each of the thirteen fields after the ids
FieldText ==
  <<"Ann", "Lee", "Q", "Jr", "1980-01-01", "111-22-3333", "1 Main", "Apt 2",
    "Springfield", "IL", "62701", "555-1212", "ann@x.com">>

\* the thirteen fields after the ids, those of F set and the others empty
FieldsSet(F) == [f \in 1..Len(FieldText) |-> IF f \in F THEN FieldText[f] ELSE ""]

\* which fields the records of a lone extractor call have set
Fillings ==
  {F \in SUBSET (1..Len(FieldText)) : Cardinality(F) <= MaxFilled}
    \cup {1..Len(FieldText)}

\* the records an extractor of the package is called with: well-formed
\* ones, and one that lacks its last field
ExtractRecs(schema) ==
  LET ids == IF schema = "compromised" THEN <<"1", "b7">> ELSE <<"1">>
  IN {ids \o FieldsSet(F) : F \in Fillings}
       \cup {ids \o SubSeq(FieldsSet({1, 2}), 1, Len(FieldText) - 1)}

KindsOf(schema) ==
  IF schema = "compromised" THEN CompromisedKinds
  ELSE IF schema = "atrisk" THEN AtRiskKinds
  ELSE Kinds

InitExtract ==
  /\ NoRun
  /\ NoShuffleCall
  /\ NoUuidCall
  /\ exSchema \in {"idfactor", "compromised"}
  /\ exKind \in KindsOf(exSchema)
  /\ exRec \in ExtractRecs(exSchema)
  /\ exId \in Uuids
  /\ exOut = <<>>
  /\ exPc = "call"

\* the call get(rec, id) of an ElementGetter
ExGet ==
  /\ exPc = "call"
  /\ exOut' = IF exSchema = "compromised"
                THEN compromisedGet(exKind, exRec, exId)
                ELSE IF exSchema = "atrisk"
                THEN atriskGet(exKind, exRec, exId)
                ELSE Get(exKind, exRec, exId)
  /\ exPc' = IF exOut' = Halt THEN "fatal: bad record length" ELSE "return"
  /\ UNCHANGED <<exSchema, exKind, exRec, exId, runVars, shuffleVars, uuidVars>>

NextExtract == ExGet

SpecExtract == InitExtract /\ [][NextExtract]_vars

(***************************************************************************)
(* A lone call of an extractor of any of the three packages, for the row   *)
(* Write<Kind>File writes under its header.                                *)
(***************************************************************************)
Schemas == {"idfactor", "atrisk", "compromised"}

\* the header of the store of kind k of the package
HeaderFor(schema, k) ==
  IF schema = "compromised" THEN compromisedHeaderOf(k)
  ELSE IF schema = "atrisk" THEN atriskHeaderOf(k)
  ELSE HeaderOf(k)

InitRows ==
  /\ NoRun
  /\ NoShuffleCall
  /\ NoUuidCall
  /\ exSchema \in Schemas
  /\ exKind \in KindsOf(exSchema)
  /\ exRec \in ExtractRecs(exSchema)
  /\ exId \in Uuids
  /\ exOut = <<>>
  /\ exPc = "call"

SpecRows == InitRows /\ [][NextExtract]_vars


(***************************************************************************)
(* A lone call of uuid.New(), statement by statement.  A byte is a number  *)
(* of 0..255; the string New returns is a sequence of characters.          *)
(***************************************************************************)
ByteWidth == 8
ByteCount == 256
UuidLength == 16

RECURSIVE BitAnd(_, _, _)
\* x & y on numbers of w bits
BitAnd(x, y, w) ==
  IF w = 0 THEN 0
  ELSE (x % 2) * (y % 2) + 2 * BitAnd(x \div 2, y \div 2, w - 1)

RECURSIVE BitOr(_, _, _)
\* x | y on numbers of w bits
BitOr(x, y, w) ==
  IF w = 0 THEN 0
  ELSE (IF x % 2 = 1 \/ y % 2 = 1 THEN 1 ELSE 0)
         + 2 * BitOr(x \div 2, y \div 2, w - 1)

\* a version byte that keeps the high nibble the source supplied
SetVersionUnmasked(b) == BitOr(b, 64, ByteWidth)

\* u[6] = (u[6] & 0x0f) | 0x40
SetVersion(b) == BitOr(BitAnd(b, 15, ByteWidth), 64, ByteWidth)

\* u[8] = (u[8] & 0xbf) | 0x80
SetVariant(b) == BitOr(BitAnd(b, 191, ByteWidth), 128, ByteWidth)

HexDigits ==
  <<"0", "1", "2", "3", "4", "5", "6", "7", "8", "9", "a", "b", "c", "d", "e", "f">>

\* fmt's %x of one byte of a byte slice: two lowercase hex digits
HexOfByte(b) == <<HexDigits[(b \div 16) + 1], HexDigits[(b % 16) + 1]>>

RECURSIVE HexOfBytes(_)
\* fmt's %x of a byte slice
HexOfBytes(bs) ==
  IF bs = <<>> THEN <<>> ELSE HexOfByte(Head(bs)) \o HexOfBytes(Tail(bs))

\* the Go slice u[lo:hi]
Slice(u, lo, hi) == SubSeq(u, lo + 1, hi)

\* fmt.Sprintf("%x-%x-%x-%x-%x", u[0:4], u[4:6], u[6:8], u[8:10], u[10:])
Sprintf(u) ==
  HexOfBytes(Slice(u, 0, 4)) \o <<"-">> \o HexOfBytes(Slice(u, 4, 6)) \o <<"-">>
    \o HexOfBytes(Slice(u, 6, 8)) \o <<"-">> \o HexOfBytes(Slice(u, 8, 10))
    \o <<"-">> \o HexOfBytes(Slice(u, 10, Len(u)))

\* values of a byte the source is made to supply besides bytes 6 and 8
FillBytes == {0, 10, 255}

\* values of byte 6 (of byte 8) while byte 8 (byte 6) takes every value
ByteSamples == {0, 15, 64, 79, 128, 191, 255}

\* what rand.Read may fill u with: bytes 6 and 8 are drawn on their own, the
\* byte at every other position p is (fill + 17 * p) mod 256
RandomFill(fill, b6, b8) ==
  [p \in 1..UuidLength |->
     IF p = 7 THEN b6 ELSE IF p = 9 THEN b8
     ELSE (fill + (p - 1) * 17) % ByteCount]

InitUuid ==
  /\ NoRun
  /\ NoShuffleCall
  /\ NoExtractCall
  /\ \E fill \in FillBytes, x \in 0..(ByteCount - 1), y \in ByteSamples :
       \/ uuRand = RandomFill(fill, x, y)
       \/ uuRand = RandomFill(fill, y, x)
  /\ uuU = <<>>
  /\ uuOut = <<>>
  /\ uuPc = "call"

\* a safeRandom that drops the error of rand.Read and returns
ReadErrorIgnored == "setbits"

\* safeRandom on an error of rand.Read: log.Fatalf
ReadError == "fatal: failed reading random bytes"

\* u := make([]byte, 16); safeRandom(u): rand.Read fills u, or log.Fatalf
UuRead ==
  /\ uuPc = "call"
  /\ \/ /\ uuU' = uuRand
        /\ uuPc' = "setbits"
     \/ /\ uuU' = [p \in 1..UuidLength |-> 0]
        /\ uuPc' = ReadError
  /\ UNCHANGED <<uuRand, uuOut, runVars, shuffleVars, extractVars>>

\* set version bits, set variant bits
UuSetBits ==
  /\ uuPc = "setbits"
  /\ uuU' = [uuU EXCEPT ![7] = SetVersion(@), ![9] = SetVariant(@)]
  /\ uuPc' = "format"
  /\ UNCHANGED <<uuRand, uuOut, runVars, shuffleVars, extractVars>>

\* return fmt.Sprintf(...)
UuReturn ==
  /\ uuPc = "format"
  /\ uuOut' = Sprintf(uuU)
  /\ uuPc' = "return"
  /\ UNCHANGED <<uuRand, uuU, runVars, shuffleVars, extractVars>>

NextUuid ==
  \/ UuRead
  \/ UuSetBits
  \/ UuReturn

SpecUuid == InitUuid /\ [][NextUuid]_vars

(***************************************************************************)
(* The three places where the random source is read: a fragment writer, a  *)
(* lone Shuffle call, a lone uuid.New call.                                *)
(***************************************************************************)
InitRandom ==
  \/ InitWriter
  \/ InitShuffle
  \/ InitUuid

NextRandom ==
  \/ NextWriter
  \/ NextShuffle
  \/ NextUuid

SpecRandom == InitRandom /\ [][NextRandom]_vars


(***************************************************************************)
(* Vocabulary of the properties.                                           *)
(***************************************************************************)
\* the record id of the r-th record of the table
RecordId(r) == Field(recs[r], RecordIDField)

\* the record ids of the table are pairwise distinct
DistinctRecordIds ==
  \A r1, r2 \in 1..Len(recs) : r1 # r2 => RecordId(r1) # RecordId(r2)

\* the r-th record yields no fragment of kind k
Suppressed(k, r) == Get(k, recs[r], "") = Nil

\* the fields of the fragment of kind k of the r-th record, surrogate id aside
FragmentOf(k, r) == Tail(Get(k, recs[r], ""))

\* the rows of the element file of kind k that are data rows
DataRowsOf(k) == 2..Len(sink[k])

\* no surrogate id occurs in two rows of the element file of kind k
FreshIds(k) ==
  \A x, y \in DataRowsOf(k) : x # y => sink[k][x][1] # sink[k][y][1]

\* the column of the identity map that holds the ids of kind k
ColumnOf(k) == 1 + CHOOSE c \in 1..Len(KindOrder) : KindOrder[c] = k

\* main has returned normally
RunComplete == fatal = "none" /\ pcMain = "exit"

\* main has returned normally and has written the identity map
MapWritten == RunComplete /\ mapfile = "set"

\* writeToWriter has returned for kind k
WriterReturned(k) == fatal = "none" /\ pc[k] \in {"close", "done"}

(***************************************************************************)
(* C1.  Round trip: when the record ids of the table are pairwise distinct *)
(* and no surrogate id was generated twice for a kind, then after a        *)
(* complete run every record that is not suppressed for a kind has exactly *)
(* one identity-map entry for its record id and that kind, and that        *)
(* entry's surrogate id is the surrogate id of exactly one row of the      *)
(* kind's element file, which is the record's fragment.                    *)
(***************************************************************************)
C1_RoundTrip ==
  (MapWritten /\ DistinctRecordIds /\ \A k \in Kinds : FreshIds(k)) =>
    \A k \in Kinds, r \in 1..Len(recs) :
      ~Suppressed(k, r) =>
        LET entries == {y \in 2..Len(mapSink) :
                          /\ mapSink[y][1] = RecordId(r)
                          /\ mapSink[y][ColumnOf(k)] # ""}
        IN /\ Cardinality(entries) = 1
           /\ \A y \in entries :
                LET rows == {x \in DataRowsOf(k) :
                               sink[k][x][1] = mapSink[y][ColumnOf(k)]}
                IN /\ Cardinality(rows) = 1
                   /\ \A x \in rows :
                        sink[k][x] = Get(k, recs[r], mapSink[y][ColumnOf(k)])

\* a complete run on two records with distinct ids, a store of two rows and
\* a store of one row
C1_Witness ==
  /\ MapWritten /\ DistinctRecordIds /\ \A k \in Kinds : FreshIds(k)
  /\ Len(recs) = 2
  /\ Len(sink["name"]) = 3
  /\ Len(sink["ssn"]) = 2

(***************************************************************************)
(* C2.  When a fragment writer has returned for a table of at least one    *)
(* record, its element file holds the header and then, as an unordered     *)
(* collection with the surrogate ids ignored, exactly the fragments of the *)
(* records that are not suppressed for the kind, one row per such record.  *)
(***************************************************************************)
C2_StoreContent ==
  \A k \in Kinds :
    (WriterReturned(k) /\ Len(recs) >= 1) =>
      LET kept == {r \in 1..Len(recs) : ~Suppressed(k, r)}
          frags == {Tail(sink[k][x]) : x \in DataRowsOf(k)}
                     \cup {FragmentOf(k, r) : r \in kept}
      IN /\ Len(sink[k]) = 1 + Cardinality(kept)
         /\ sink[k][1] = HeaderOf(k)
         /\ \A f \in frags :
              Cardinality({x \in DataRowsOf(k) : Tail(sink[k][x]) = f})
                = Cardinality({r \in kept : FragmentOf(k, r) = f})

\* a writer returned for three records, one of them suppressed, and the
\* first row of its file is the fragment of the last record
C2_Witness ==
  \E k \in Kinds :
    /\ WriterReturned(k)
    /\ Len(recs) = 3
    /\ Len(sink[k]) = 3
    /\ Suppressed(k, 2)
    /\ FragmentOf(k, 1) # FragmentOf(k, 3)
    /\ Tail(sink[k][2]) = FragmentOf(k, 3)

(***************************************************************************)
(* C3.  The record ids of the identity map's rows are those of the table,  *)
(* in the table's order, whatever the interleaving of the writers, the     *)
(* order they finished in and the permutations they drew.                  *)
(***************************************************************************)
C3_MapOrder ==
  /\ \A y \in 2..Len(mapSink \o mapBuf) :
       /\ y - 1 <= Len(recs)
       /\ (mapSink \o mapBuf)[y][1] = RecordId(y - 1)
  /\ MapWritten => Len(mapSink) = 1 + Len(recs)

\* the map is written for two records whose name fragments were written in
\* the opposite order
C3_Witness ==
  /\ MapWritten
  /\ Len(recs) = 2
  /\ Len(sink["name"]) = 3
  /\ Tail(sink["name"][2]) = FragmentOf("name", 2)
  /\ Tail(sink["name"][3]) = FragmentOf("name", 1)

(***************************************************************************)
(* C4.  The identity map has the map header and one row per record; the    *)
(* row's cell of each kind, in the column order of the header, holds the   *)
(* surrogate id the kind's writer recorded for the record's id, the empty  *)
(* marker when it recorded none, which (for distinct record ids) is the    *)
(* case exactly when the record is suppressed for the kind.                *)
(***************************************************************************)
C4_MapRows ==
  MapWritten =>
    /\ Len(mapSink) = 1 + Len(recs)
    /\ mapSink[1] = mapHeader
    /\ \A r \in 1..Len(recs) :
         /\ Len(mapSink[r + 1]) = 1 + Len(KindOrder)
         /\ mapSink[r + 1][1] = RecordId(r)
         /\ \A c \in 1..Len(KindOrder) :
              /\ mapHeader[c + 1] = HeaderOf(KindOrder[c])[1]
              /\ mapSink[r + 1][c + 1] = MapGet(res[KindOrder[c]], RecordId(r))
              /\ DistinctRecordIds =>
                   (mapSink[r + 1][c + 1] = "" <=> Suppressed(KindOrder[c], r))

\* a written map with a row that has a surrogate id in one cell and the
\* empty marker in another
C4_Witness ==
  /\ MapWritten
  /\ \E r \in 1..Len(recs) :
       /\ mapSink[r + 1][ColumnOf("name")] # ""
       /\ mapSink[r + 1][ColumnOf("ssn")] = ""
  /\ \E r \in 1..Len(recs) : mapSink[r + 1][ColumnOf("ssn")] # ""

(***************************************************************************)
(* C5.  For every n >= 1 and every sequence of draws, Shuffle(n) returns a *)
(* sequence of length n in which every integer of [0, n) occurs exactly    *)
(* once.                                                                   *)
(***************************************************************************)
C5_ShufflePermutation ==
  (shN >= 1 /\ shPc = "return") =>
    /\ Len(shA) = shN
    /\ \A v \in 0..(shN - 1) :
         Cardinality({x \in 1..Len(shA) : shA[x] = v}) = 1

\* Shuffle has returned a sequence of three or more that is not in order
C5_Witness ==
  /\ shPc = "return"
  /\ shN >= 3
  /\ \E x \in 1..Len(shA) : shA[x] # x - 1
  /\ \E x \in 1..Len(shDraws) : shDraws[x] # x - 1

(***************************************************************************)
(* The source fields of a kind, in the order its header declares.          *)
(***************************************************************************)
SourceFields(schema, k) ==
  IF schema = "compromised"
    THEN CASE k = "name" ->
                <<compromisedFirstNameField, compromisedLastNameField,
                  compromisedMiddleInitialField, compromisedSuffixField,
                  compromisedDobField>>
           [] k = "ssn" -> <<compromisedSsnField>>
           [] k = "address" ->
                <<compromisedAddressLine1Field, compromisedAddressLine2Field,
                  compromisedCityField, compromisedStateField,
                  compromisedZipField>>
           [] k = "phone" -> <<compromisedPhoneField>>
           [] k = "email" -> <<compromisedEmailField>>
           [] k = "nameaddress" ->
                <<compromisedFirstNameField, compromisedLastNameField,
                  compromisedMiddleInitialField, compromisedSuffixField,
                  compromisedAddressLine1Field, compromisedAddressLine2Field,
                  compromisedCityField, compromisedStateField,
                  compromisedZipField>>
           [] k = "namephone" ->
                <<compromisedFirstNameField, compromisedLastNameField,
                  compromisedMiddleInitialField, compromisedSuffixField,
                  compromisedPhoneField>>
    ELSE CASE k = "name" ->
                <<FirstNameField, LastNameField, MiddleInitialField,
                  SuffixField, DobField>>
           [] k = "ssn" -> <<SsnField>>
           [] k = "address" ->
                <<AddressLine1Field, AddressLine2Field, CityField, StateField,
                  ZipField>>
           [] k = "phone" -> <<PhoneField>>
           [] k = "email" -> <<EmailField>>

\* the length of a record of the schema
SchemaLength(schema) ==
  IF schema = "compromised" THEN compromisedRecordLength ELSE RecordLength

\* the values the record of the extractor call has in the kind's source fields
SourceValues ==
  LET sf == SourceFields(exSchema, exKind)
  IN [x \in 1..Len(sf) |-> Field(exRec, sf[x])]

\* every source field of the extractor call's record is empty
SourcesEmpty == \A x \in 1..Len(SourceValues) : SourceValues[x] = ""

\* the extractor call is over, and its record has the schema's length
Extracted == exPc # "call" /\ Len(exRec) = SchemaLength(exSchema)

(***************************************************************************)
(* C6 as stated.  For a record of the schema's length the extractor        *)
(* returns nil if and only if every source field of the kind is empty, and *)
(* otherwise the surrogate id followed by exactly the values of the source *)
(* fields, in order.                                                       *)
(***************************************************************************)
C6_ExactlySourceValues ==
  Extracted =>
    /\ exPc = "return"
    /\ exOut = Nil <=> SourcesEmpty
    /\ exOut # Nil => exOut = <<exId>> \o SourceValues

(***************************************************************************)
(* C6, amended.  For a record of the schema's length the extractor returns *)
(* nil if and only if every source field of the kind is empty; otherwise   *)
(* it returns the surrogate id followed by the values of the source fields *)
(* in order, followed by one empty value (the zip4 column) when the kind   *)
(* holds the address fields, and preceded by the record's breach id in     *)
(* package compromised.                                                    *)
(***************************************************************************)
C6_Extract ==
  Extracted =>
    LET before == IF exSchema = "compromised"
                    THEN <<Field(exRec, compromisedBreachIDField)>>
                    ELSE <<>>
        after == IF exKind \in {"address", "nameaddress"} THEN <<"">> ELSE <<>>
    IN /\ exPc = "return"
       /\ exOut = Nil <=> SourcesEmpty
       /\ exOut # Nil => exOut = before \o <<exId>> \o SourceValues \o after

\* an address fragment of package compromised, from a record that has one of
\* the address fields set and another empty
C6_Witness ==
  /\ Extracted
  /\ exSchema = "compromised" /\ exKind = "address"
  /\ exOut # Nil
  /\ SourceValues[1] = "" /\ SourceValues[3] # ""

(***************************************************************************)
(* C7.  main builds and writes the identity map only after every writer    *)
(* has returned its result mapping and closed its file: while main is past *)
(* workers.Wait(), every writer is done, its mapping is the result main    *)
(* holds, and nothing is left in its buffer; and whenever the map file     *)
(* exists, every element file holds its header and a row for each record   *)
(* that is not suppressed.                                                 *)
(***************************************************************************)
C7_JoinAll ==
  /\ (fatal = "none" /\ pcMain \notin {"read", "start", "wait"}) =>
       \A k \in Kinds :
         /\ pc[k] = "done"
         /\ res[k] = idmap[k]
         /\ buf[k] = <<>>
  /\ (mapCreated \/ mapSink # <<>> \/ mapBuf # <<>>) =>
       \A k \in Kinds :
         /\ k \in created
         /\ Len(sink[k]) =
              1 + Cardinality({r \in 1..Len(recs) : ~Suppressed(k, r)})

\* main is writing the second row of the map
C7_Witness ==
  /\ fatal = "none"
  /\ pcMain = "maprow"
  /\ mapPos = 1
  /\ Len(mapBuf) = 2
  /\ \A k \in Kinds : pc[k] = "done"

(***************************************************************************)
(* C8.  When the run ended in a writer's fatal error, no identity map was  *)
(* built and no map file was created or written.                           *)
(***************************************************************************)
WriterFatals ==
  {"error creating file", "shuffle: n must be positive",
   "shuffle: failed to generate random number",
   "uuid: failed reading random bytes", "bad record length",
   "error writing element", "error flushing writer", "error closing file"}

C8_TaskFailureFatal ==
  fatal \in WriterFatals =>
    /\ ~mapCreated
    /\ mapSink = <<>>
    /\ mapBuf = <<>>
    /\ mapfile = "unread"
    /\ pcMain = "exited"

\* a writer failed after another writer had written all of its file
C8_Witness ==
  /\ fatal \in WriterFatals
  /\ Len(recs) = 2
  /\ \E k \in Kinds : Len(sink[k]) = 3
  /\ \E k \in Kinds : sink[k] = <<>>

(***************************************************************************)
(* C9 as stated.  In every execution, also one that a failed header write, *)
(* row write or flush aborts, the file of each kind holds nothing, or the  *)
(* header and a row for each record that is not suppressed.                *)
(***************************************************************************)
C9_AllOrNothing ==
  \A k \in Kinds :
    \/ sink[k] = <<>>
    \/ /\ sink[k][1] = HeaderOf(k)
       /\ Len(sink[k]) =
            1 + Cardinality({r \in 1..Len(recs) : ~Suppressed(k, r)})

(***************************************************************************)
(* C10 as stated.  When the table holds a row whose field count is not the *)
(* record length, the run aborts and no file has received a header.        *)
(***************************************************************************)
C10_NoHeaderBeforeAbort ==
  (\E r \in 1..Len(recs) : Len(recs[r]) # RecordLength) =>
    \A k \in Kinds : sink[k] = <<>>

(***************************************************************************)
(* C11 as stated.  When a record's field count is not the record length    *)
(* the run aborts with no fragment extracted or written, of that record or *)
(* of any other: after the abort no element file holds a data row.         *)
(***************************************************************************)
C11_NoFragmentOnMismatch ==
  fatal = "bad record length" =>
    \A k \in Kinds : Len(sink[k]) <= 1

(***************************************************************************)
(* C12.  End to end, on the table of record "1" (all fields set but middle *)
(* initial, suffix and address line 2) and record "2" (first and last name *)
(* only): the name file gets 2 data rows and the ssn file exactly 1, that  *)
(* of record "1"; the written map has 2 rows, of "1" and then of "2", and  *)
(* the row of "2" has the id of its name row in the name cell and empty    *)
(* ssn, address, phone and email cells.                                    *)
(***************************************************************************)
C12_EndToEnd ==
  recs = ExampleTable =>
    /\ WriterReturned("name") => Len(sink["name"]) = 3
    /\ WriterReturned("ssn") =>
         /\ Len(sink["ssn"]) = 2
         /\ Tail(sink["ssn"][2]) = <<"111-22-3333">>
    /\ MapWritten =>
         /\ Len(mapSink) = 3
         /\ mapSink[2][1] = "1"
         /\ mapSink[3][1] = "2"
         /\ mapSink[3][ColumnOf("name")] # ""
         /\ \E x \in DataRowsOf("name") :
              sink["name"][x] =
                <<mapSink[3][ColumnOf("name")], "Bo", "Kim", "", "", "">>
         /\ \A k \in {"ssn", "address", "phone", "email"} :
              mapSink[3][ColumnOf(k)] = ""

\* the example's run is complete, the name row of "2" written before that
\* of "1"
C12_Witness ==
  /\ recs = ExampleTable
  /\ MapWritten
  /\ Len(sink["name"]) = 3
  /\ Len(sink["ssn"]) = 2
  /\ Tail(sink["name"][2]) = FragmentOf("name", 2)

(***************************************************************************)
(* Reading the text of a uuid back.                                        *)
(***************************************************************************)
\* the value of a hex digit
HexValue(c) == (CHOOSE x \in 1..Len(HexDigits) : HexDigits[x] = c) - 1

\* the hex digits of the returned string, hyphens left out
UuidDigits == SelectSeq(uuOut, LAMBDA c : c # "-")

\* the byte that the p-th pair of digits of the returned string spells
TextByte(p) ==
  16 * HexValue(UuidDigits[2 * p - 1]) + HexValue(UuidDigits[2 * p])

(***************************************************************************)
(* C13.  For every 16 bytes read from the random source, New returns 36    *)
(* characters: lowercase hex digits in groups of 8, 4, 4, 4 and 12 with a  *)
(* hyphen between groups; the high nibble of byte 6 is 4, the top two bits *)
(* of byte 8 are 10, and every other bit is the bit read from the source.  *)
(***************************************************************************)
C13_UuidFormat ==
  uuPc = "return" =>
    /\ Len(uuOut) = 36
    /\ \A x \in 1..Len(uuOut) :
         IF x \in {9, 14, 19, 24}
           THEN uuOut[x] = "-"
           ELSE \E h \in 1..Len(HexDigits) : uuOut[x] = HexDigits[h]
    /\ Len(UuidDigits) = 2 * UuidLength
    /\ TextByte(7) \div 16 = 4
    /\ TextByte(9) \div 64 = 2
    /\ TextByte(7) % 16 = uuRand[7] % 16
    /\ TextByte(9) % 64 = uuRand[9] % 64
    /\ \A p \in 1..UuidLength : p \notin {7, 9} => TextByte(p) = uuRand[p]

\* New has returned for bytes whose version and variant bits were all set,
\* and whose first byte is below 16
C13_Witness ==
  /\ uuPc = "return"
  /\ uuRand[7] = 255
  /\ uuRand[9] = 255
  /\ uuRand[1] = 10
  /\ uuOut[1] = "0"
  /\ uuOut[15] = "4"
  /\ uuOut[20] = "b"

(***************************************************************************)
(* C14.  Shuffle(n) with n < 1 fails with log.Fatal: it draws no random    *)
(* number, allocates and returns no array.                                 *)
(***************************************************************************)
C14_ShuffleInvalidInput ==
  shN < 1 =>
    /\ shPc \in {"none", "call", "fatal: n must be positive"}
    /\ shDraws = <<>>
    /\ shA = <<>>
    /\ shI = 0

\* Shuffle(0) has ended in log.Fatal
C14_Witness ==
  /\ shN = 0
  /\ shPc = "fatal: n must be positive"

(***************************************************************************)
(* C15.  Unless main found a map file name in the -m flag, no map file is  *)
(* created and no map row is built or written; and a run that completes    *)
(* without the flag has created every element file and written it whole.   *)
(***************************************************************************)
C15_NoMapUnlessAsked ==
  /\ mapfile # "set" =>
       /\ ~mapCreated
       /\ mapSink = <<>>
       /\ mapBuf = <<>>
       /\ mapPos = 0
  /\ (RunComplete /\ mapfile = "empty") =>
       \A k \in Kinds :
         /\ k \in created
         /\ buf[k] = <<>>
         /\ sink[k][1] = HeaderOf(k)
         /\ Len(sink[k]) =
              1 + Cardinality({r \in 1..Len(recs) : ~Suppressed(k, r)})

\* a run on two records has completed without the flag
C15_Witness ==
  /\ RunComplete
  /\ mapfile = "empty"
  /\ Len(recs) = 2
  /\ Len(sink["name"]) = 3
  /\ ~mapCreated

(***************************************************************************)
(* Permutations, and the in-place Fisher-Yates shuffle of the              *)
(* specification: from the identity array, for i from 0 to n-1, swap a[i]  *)
(* with a[j] for the drawn j of [0, i].                                    *)
(***************************************************************************)
\* the permutations of [0, n), as arrays
Perms(n) ==
  {p \in [1..n -> 0..(n - 1)] : \A x, y \in 1..n : x # y => p[x] # p[y]}

RECURSIVE Factorial(_)
Factorial(n) == IF n <= 1 THEN 1 ELSE n * Factorial(n - 1)

IdentityArray(n) == [x \in 1..n |-> x - 1]

\* swap a[i] with a[j]
Swap(a, i, j) == [a EXCEPT ![i + 1] = a[j + 1], ![j + 1] = a[i + 1]]

RECURSIVE FisherYatesFrom(_, _, _)
\* the swaps of the indices i, i+1, .. for which draws has a draw
FisherYatesFrom(a, i, draws) ==
  IF i >= Len(draws) THEN a
  ELSE FisherYatesFrom(Swap(a, i, draws[i + 1]), i + 1, draws)

FisherYates(n, draws) == FisherYatesFrom(IdentityArray(n), 0, draws)

(***************************************************************************)
(* C16.  For every n >= 1 the map from the draw sequences (j_0 .. j_{n-1}) *)
(* with 0 <= j_i <= i to the array Shuffle returns is a bijection onto the *)
(* n! permutations of [0, n): every permutation is the result of a draw    *)
(* sequence, and the array a call returned is the result of no other draw  *)
(* sequence than the one the call drew.                                    *)
(***************************************************************************)
C16_ShuffleBijection ==
  /\ (shPc = "call" /\ shN >= 1) =>
       LET image == {Shuffle(shN, d) : d \in DrawSeqs(shN)}
       IN /\ image = Perms(shN)
          /\ Cardinality(image) = Factorial(shN)
          /\ Cardinality(DrawSeqs(shN)) = Factorial(shN)
  /\ shPc = "return" =>
       /\ shDraws \in DrawSeqs(shN)
       /\ shA = Shuffle(shN, shDraws)
       /\ \A d \in DrawSeqs(shN) : Shuffle(shN, d) = shA => d = shDraws

\* Shuffle(3) has returned the reversed array
C16_Witness ==
  /\ shPc = "return"
  /\ shN = 3
  /\ shA = <<2, 1, 0>>

(***************************************************************************)
(* C17.  The loop of Shuffle refines the in-place Fisher-Yates shuffle:    *)
(* after each iteration the part of the array the loop has reached is the  *)
(* same part of the array Fisher-Yates has after the same draws, and the   *)
(* array Shuffle returns is the array Fisher-Yates ends with.              *)
(***************************************************************************)
C17_RefinesFisherYates ==
  /\ shPc = "loop" =>
       /\ Len(shDraws) = shI
       /\ \A x \in 1..shI : shA[x] = FisherYates(shN, shDraws)[x]
  /\ shPc = "return" =>
       /\ Len(shDraws) = shN
       /\ shA = FisherYates(shN, shDraws)
       /\ Shuffle(shN, shDraws) = FisherYates(shN, shDraws)

\* Shuffle has returned after an iteration that drew j = i and one that drew
\* j < i
C17_Witness ==
  /\ shPc = "return"
  /\ shN >= 3
  /\ \E x \in 2..Len(shDraws) : shDraws[x] = x - 1
  /\ \E x \in 2..Len(shDraws) : shDraws[x] < x - 1
  /\ shA # IdentityArray(shN)

(***************************************************************************)
(* The parts of C18.                                                       *)
(***************************************************************************)
\* the header is the first row handed to the writer and the first in the file
HeaderFirst(k) ==
  /\ Written(k) # <<>> => Written(k)[1] = HeaderOf(k)
  /\ sink[k] # <<>> => sink[k][1] = HeaderOf(k)

\* the indices the loop of the writer of kind k has visited whose record is
\* not suppressed, in the order of the permutation
VisitedKept(k) ==
  SelectSeq(SubSeq(perm[k], 1, pos[k]), LAMBDA i : ~Suppressed(k, i + 1))

\* the x-th data row is the fragment of the x-th visited index whose record
\* is not suppressed
RowsInShuffleOrder(k) ==
  /\ Len(Written(k)) = 1 + Len(VisitedKept(k))
  /\ \A x \in 1..Len(VisitedKept(k)) :
       Tail(Written(k)[x + 1]) = FragmentOf(k, VisitedKept(k)[x] + 1)

\* every pair of the writer's idmap belongs to a row handed to the writer:
\* the fragment of a record with that record id, under that surrogate id
PairsHaveRows(k) ==
  \A id \in DOMAIN idmap[k] :
    \E x \in 2..Len(Written(k)), r \in 1..Len(recs) :
      /\ RecordId(r) = id
      /\ Written(k)[x] = Get(k, recs[r], idmap[k][id])

\* what holds in every state of a writer
WriterOrderState ==
  \A k \in Kinds :
    /\ HeaderFirst(k)
    /\ pc[k] \in {"loop", "flush"} =>
         /\ perm[k] \in Perms(Len(recs))
         /\ RowsInShuffleOrder(k)
    /\ fatal = "none" => PairsHaveRows(k)

\* what holds of every step of a writer: a permutation once drawn is never
\* drawn again, a pair is recorded only by a step that hands its row to the
\* writer, and the flush puts the rows in the file in the order they were
\* handed over
WriterOrderStep ==
  \A k \in Kinds :
    /\ perm[k] # <<>> => perm'[k] \in {perm[k], <<>>}
    /\ pc'[k] = "shuffle" => pc[k] \in {"open", "shuffle"}
    /\ (fatal' = "none" /\ idmap'[k] # idmap[k]) =>
         /\ Len(sink'[k]) + Len(buf'[k]) = Len(Written(k)) + 1
         /\ SubSeq(sink'[k] \o buf'[k], 1, Len(Written(k))) = Written(k)
    /\ (pc[k] = "flush" /\ pc'[k] = "close") => sink'[k] = Written(k)

(***************************************************************************)
(* C18.  In one writer invocation the header is the first row written, one *)
(* permutation is drawn, the k-th data row is the fragment of the k-th     *)
(* index of the permutation whose record is not suppressed, and a record   *)
(* id is paired with a surrogate id only when the row with that surrogate  *)
(* id was written.                                                         *)
(***************************************************************************)
C18_WriterOrder == [](WriterOrderState) /\ [][WriterOrderStep]_vars

\* a writer has gone through a table of three records in reverse order, the
\* middle one suppressed, and part of its rows is in the file already
C18_Witness ==
  \E k \in Kinds :
    /\ pc[k] = "flush"
    /\ Len(recs) = 3
    /\ perm[k] = <<2, 1, 0>>
    /\ Suppressed(k, 2) /\ ~Suppressed(k, 1) /\ ~Suppressed(k, 3)
    /\ FragmentOf(k, 1) # FragmentOf(k, 3)
    /\ Len(Written(k)) = 3
    /\ Len(sink[k]) = 2
    /\ DOMAIN idmap[k] # {}

(***************************************************************************)
(* The parts of C19.                                                       *)
(***************************************************************************)
\* what belongs to the writer task of kind k: its position, permutation,
\* idmap, csv.Writer, file, and the result variable of main it assigns
OwnState(k) ==
  <<pc[k], perm[k], pos[k], idmap[k], gen[k], buf[k], sink[k], res[k],
    k \in created>>

\* the aggregation table and its file
MapState == <<mapPos, mapBuf, mapSink, mapCreated>>

\* a step in which the process goes on and main stays where it is
TaskStep == fatal' = "none" /\ pcMain' = pcMain

\* the step of a task changes what belongs to one task and nothing of the
\* map; no step changes the record table; the map changes only in a step of
\* main after the join, which changes nothing of any task
NoSharedStateStep ==
  /\ recs' = recs
  /\ TaskStep =>
       /\ Cardinality({k \in Kinds : OwnState(k)' # OwnState(k)}) <= 1
       /\ (\E k \in Kinds : OwnState(k)' # OwnState(k)) => MapState' = MapState
  /\ (fatal' = "none" /\ MapState' # MapState) =>
       /\ pcMain \in {"mapcreate", "maprow", "mapflush", "mapclose"}
       /\ workers = 0
       /\ \A k \in Kinds : pc[k] = "done" /\ OwnState(k)' = OwnState(k)

(***************************************************************************)
(* C19.  The writer tasks share no mutable state: a step of a task writes  *)
(* only that task's own state (its result mapping, its file), no step      *)
(* writes the record table, and the aggregation table is written only by   *)
(* main after the join.                                                    *)
(***************************************************************************)
C19_NoSharedState == [][NoSharedStateStep]_vars

\* main waits while one writer is in its loop with a data row written,
\* another has returned its result and a third has not written anything yet
C19_Witness ==
  /\ fatal = "none"
  /\ pcMain = "wait"
  /\ \E k1, k2, k3 \in Kinds :
       /\ k1 # k2 /\ k1 # k3 /\ k2 # k3
       /\ pc[k1] = "loop" /\ Len(Written(k1)) >= 2
       /\ pc[k2] = "done" /\ DOMAIN res[k2] # {}
       /\ Written(k3) = <<>>

(***************************************************************************)
(* The parts of C20.                                                       *)
(***************************************************************************)
\* the writer of kind k is about to call shuffle.Shuffle on a table with
\* records
ReadyToShuffle(k) == Running /\ pc[k] = "shuffle" /\ Len(recs) >= 1

\* the Shuffle call of the writer of kind k returns q, and every other writer
\* stays where it is with the permutation it has
DrawsPermutation(k, q) ==
  /\ DoShuffle(k)
  /\ perm' = [perm EXCEPT ![k] = q]
  /\ \A j \in Kinds \ {k} : pc'[j] = pc[j]

(***************************************************************************)
(* C20.  Each store's row order is independent of the input order and of  *)
(* every other store's order: whatever the other writers have drawn or     *)
(* have yet to draw, a writer about to shuffle can draw every permutation  *)
(* of the record indices, and its draw leaves the other writers as they    *)
(* are; so every pair (p, q) is used by two writers in some execution.     *)
(***************************************************************************)
C20_IndependentOrders ==
  \A k \in Kinds :
    ReadyToShuffle(k) =>
      \A q \in Perms(Len(recs)) : ENABLED DrawsPermutation(k, q)

\* two writers hold different permutations of two records, one of them not
\* the input order, while a third is about to draw its own
C20_Witness ==
  /\ fatal = "none"
  /\ Len(recs) = 2
  /\ \E k1, k2, k3 \in Kinds :
       /\ perm[k1] = <<1, 0>> /\ pc[k1] \in {"loop", "flush", "close", "done"}
       /\ perm[k2] = <<0, 1>> /\ pc[k2] \in {"loop", "flush", "close", "done"}
       /\ ReadyToShuffle(k3)

(***************************************************************************)
(* The parts of C21.                                                       *)
(***************************************************************************)
\* on an empty table no writer gets past the Shuffle call: it has no
\* permutation, returns no mapping, and its file, if created, stays empty;
\* while it is at the call the header is what it handed to the csv.Writer
EmptyTableState ==
  Len(recs) = 0 =>
    /\ \A k \in Kinds :
         /\ pc[k] \in {"idle", "open", "shuffle", "exited"}
         /\ perm[k] = <<>> /\ idmap[k] = EmptyMap /\ res[k] = EmptyMap
         /\ sink[k] = <<>>
         /\ pc[k] = "shuffle" => k \in created /\ buf[k] = <<HeaderOf(k)>>
    /\ fatal \in {"none", "error creating file", "shuffle: n must be positive"}

\* the step a writer takes from the Shuffle call on an empty table is the
\* fatal of shuffle.go:12
EmptyTableStep ==
  \A k \in Kinds :
    (Len(recs) = 0 /\ pc[k] = "shuffle" /\ pc'[k] # pc[k]) =>
      /\ fatal' = "shuffle: n must be positive"
      /\ k \in created'
      /\ sink'[k] = <<>>

(***************************************************************************)
(* C21.  A fragment writer called on an empty record table asks for a      *)
(* shuffle of size zero and ends in the fatal "n must be positive", after  *)
(* it handed the header to the csv.Writer and without returning a mapping; *)
(* it never completes, and its file never holds the header alone.          *)
(***************************************************************************)
C21_EmptyTableFatal == [](EmptyTableState) /\ [][EmptyTableStep]_vars

\* the run on an empty table has ended in the fatal of the shuffle, the file
\* created and empty
C21_Witness ==
  /\ Len(recs) = 0
  /\ fatal = "shuffle: n must be positive"
  /\ \E k \in Kinds : k \in created /\ sink[k] = <<>> /\ pc[k] = "exited"

(***************************************************************************)
(* The parts of C22.                                                       *)
(***************************************************************************)
\* the fatals of a failed rand.Int in Shuffle and a failed rand.Read in
\* uuid.New, as a run of a writer ends in them
RandomFatals ==
  {"shuffle: failed to generate random number",
   "uuid: failed reading random bytes"}

\* a call or a run that ended in a failure of the random source
RandomFailed ==
  \/ fatal \in RandomFatals
  \/ shPc = "fatal: failed to generate random number"
  \/ uuPc = ReadError

\* after the failure nothing was returned: Shuffle did not return an array,
\* uuid.New no string, the writer no mapping, and the process is gone
RandomFailureState ==
  /\ shPc = "fatal: failed to generate random number" =>
       Len(shDraws) = shI /\ shI < shN
  /\ uuPc = ReadError => uuOut = <<>>
  /\ fatal \in RandomFatals =>
       /\ pcMain = "exited"
       /\ \A k \in Kinds :
            /\ pc[k] = "exited"
            /\ perm[k] = <<>> /\ idmap[k] = EmptyMap /\ res[k] = EmptyMap
            /\ buf[k] = <<>>

\* the step in which the source fails writes nothing; a permutation or an id
\* comes only from numbers the source supplied; nothing follows the failure
RandomFailureStep ==
  /\ ~RandomFailed
  /\ RandomFailed' =>
       /\ sink' = sink /\ created' = created
       /\ mapSink' = mapSink /\ mapCreated' = mapCreated
       /\ shA' = shA /\ shDraws' = shDraws /\ uuOut' = uuOut
  /\ (shPc = "loop" /\ shI' # shI) =>
       \E j \in 0..shI : shDraws' = Append(shDraws, j) /\ shA' = ShuffleIter(shA, shI, j)
  /\ (uuPc = "call" /\ uuPc' # ReadError) => uuU' = uuRand
  /\ \A k \in Kinds :
       (pc[k] = "shuffle" /\ pc'[k] = "loop") =>
         \E d \in DrawSeqs(Len(recs)) : perm'[k] = Shuffle(Len(recs), d)

(***************************************************************************)
(* C22.  A failure of the random source is fatal and no weaker source      *)
(* takes its place: when a draw in Shuffle or the read in uuid.New fails,  *)
(* the call returns no permutation and no id, the writer writes no further *)
(* row and returns no mapping, and the run is over.                        *)
(***************************************************************************)
C22_RandomFailureFatal == [](RandomFailureState) /\ [][RandomFailureStep]_vars

\* a writer whose rows reached the file ended in the fatal of uuid.New: the
\* rows written before stay, nothing was returned
C22_Witness ==
  /\ fatal = "uuid: failed reading random bytes"
  /\ \E k \in Kinds : Len(sink[k]) >= 2 /\ res[k] = EmptyMap /\ pc[k] = "exited"

(***************************************************************************)
(* The parts of C23.                                                       *)
(***************************************************************************)
\* every writer goroutine has returned and called workers.Done()
AllWritersDone == fatal = "none" /\ \A k \in Kinds : pc[k] = "done"

\* main is past workers.Wait()
JoinReturned == pcMain \notin {"read", "start", "wait"}

\* the fatals of WriteMapToFile and WriteMapToWriter
MapFatals ==
  {"error creating map file", "error writing map file",
   "error flushing map writer", "error closing map file"}

\* main returned; with -m the map file holds the header and a row per record
RunCompleted ==
  /\ RunComplete
  /\ mapfile = "set" => mapCreated /\ mapBuf = <<>> /\ Len(mapSink) = Len(recs) + 1
  /\ mapfile = "empty" => ~mapCreated

\* while a writer has not finished main does not leave workers.Wait(), unless
\* the process exits
BlockedAtJoin ==
  (pcMain = "wait" /\ \E k \in Kinds : pc[k] # "done") =>
    pcMain' \in {"wait", "exited"}

(***************************************************************************)
(* C23 as stated.  Under fair scheduling, once every writer has finished   *)
(* without a fatal error the run eventually completes, the map built and   *)
(* written when requested.                                                 *)
(***************************************************************************)
C23_AlwaysCompletes == AllWritersDone ~> RunCompleted

(***************************************************************************)
(* C23, amended.  Under fair scheduling, once every writer has finished    *)
(* without a fatal error the join eventually returns, and the run          *)
(* eventually completes (the map written when requested) or ends in the    *)
(* fatal of an I/O error on the map file; while a writer has not finished  *)
(* main stays blocked at the join.                                         *)
(***************************************************************************)
C23_JoinLiveness ==
  /\ AllWritersDone ~> JoinReturned
  /\ AllWritersDone ~> (RunCompleted \/ fatal \in MapFatals)
  /\ [][BlockedAtJoin]_vars

\* the run has completed with the map of its record written
C23_Witness ==
  /\ RunCompleted
  /\ mapfile = "set"
  /\ Len(mapSink) = 2
  /\ \A k \in Kinds : pc[k] = "done"

(***************************************************************************)
(* C24.  In every fragment store of every package (idfactor, atrisk,       *)
(* compromised) and every kind, the composite kinds included, a data row   *)
(* (the element the getter returns, which writeToWriter writes as it is)   *)
(* has as many fields as the header of the store.                          *)
(***************************************************************************)
C24_RowMatchesHeader ==
  (exPc = "return" /\ exOut # Nil) =>
    Len(exOut) = Len(HeaderFor(exSchema, exKind))

(***************************************************************************)
(* The parts of C25.                                                       *)
(***************************************************************************)
\* records r1 and r2 carry one record id and both yield a fragment of kind k
SharedId(k, r1, r2) ==
  /\ r1 # r2
  /\ RecordId(r1) = RecordId(r2)
  /\ ~Suppressed(k, r1) /\ ~Suppressed(k, r2)

\* the surrogate id of the row of kind k that carries the fragment of record r
\* (the two records of one id have different fragments)
IdOfRowOf(k, r) ==
  LET rows == Written(k)
      x == CHOOSE y \in 2..Len(rows) : Tail(rows[y]) = FragmentOf(k, r)
  IN rows[x][1]

\* the record the writer of kind k visits later, of r1 and r2
LaterOf(k, r1, r2) ==
  LET at(r) == CHOOSE x \in 1..Len(perm[k]) : perm[k][x] = r - 1
  IN IF at(r1) > at(r2) THEN r1 ELSE r2

\* the loop of the writer of kind k is over: two rows with two surrogate
\* ids, one entry, which holds the id of the record visited later
OneEntryForSharedId(k, r1, r2) ==
  (fatal = "none" /\ pc[k] = "flush" /\ SharedId(k, r1, r2)
     /\ FragmentOf(k, r1) # FragmentOf(k, r2)
     /\ Written(k)[2][1] # Written(k)[3][1]) =>
    /\ Len(Written(k)) = 3
    /\ DOMAIN idmap[k] = {RecordId(r1)}
    /\ idmap[k][RecordId(r1)] = IdOfRowOf(k, LaterOf(k, r1, r2))
    /\ idmap[k][RecordId(r1)] # IdOfRowOf(k, IF LaterOf(k, r1, r2) = r1 THEN r2 ELSE r1)

\* the map is written: the rows of both records show the id of the later
\* row of the file, and the id of the earlier row is in no entry of the
\* mapping and in no cell of the kind's column
MapShowsLaterId(k, r1, r2) ==
  (MapWritten /\ SharedId(k, r1, r2) /\ FreshIds(k)) =>
    /\ Len(sink[k]) = 3
    /\ DOMAIN res[k] = {RecordId(r1)}
    /\ mapSink[r1 + 1][ColumnOf(k)] = sink[k][3][1]
    /\ mapSink[r2 + 1][ColumnOf(k)] = sink[k][3][1]
    /\ \A key \in DOMAIN res[k] : res[k][key] # sink[k][2][1]
    /\ \A x \in 2..Len(mapSink) : mapSink[x][ColumnOf(k)] # sink[k][2][1]

(***************************************************************************)
(* C25.  Two records with one record id, both with a fragment of a kind:   *)
(* the kind's writer writes two rows with two surrogate ids (ids drawn     *)
(* twice aside) and returns a mapping with one entry for the id, holding   *)
(* the surrogate id of the record later in shuffle order; both map rows    *)
(* show that id and the other row's id is in no map entry of the kind.     *)
(***************************************************************************)
C25_DuplicateRecordId ==
  \A k \in Kinds : \A r1, r2 \in 1..Len(recs) :
    /\ OneEntryForSharedId(k, r1, r2)
    /\ MapShowsLaterId(k, r1, r2)

\* the map of the table of two records with the id "1" is written, the name
\* file holding their two rows under two surrogate ids
C25_Witness ==
  /\ MapWritten
  /\ recs = DupTable
  /\ SharedId("name", 1, 2)
  /\ FreshIds("name")
  /\ Len(sink["name"]) = 3
  /\ Tail(sink["name"][3]) = FragmentOf("name", 1)
  /\ mapSink[3][ColumnOf("name")] = sink["name"][3][1]

(***************************************************************************)
(* The parts of C26.                                                       *)
(***************************************************************************)
\* the writer of kind k generated one id per record it visited, and one per
\* record of the table once its loop is over
OneIdPerRecord(k) ==
  /\ (fatal = "none" /\ pc[k] \in {"loop", "flush"}) => gen[k] = pos[k]
  /\ (fatal = "none" /\ pc[k] \in {"flush", "close", "done"}) => gen[k] = Len(recs)

\* the id is generated before the getter is called: at every record the
\* loop is about to visit, well-formed or not, suppressed or not, the
\* iteration can end in the fatal of uuid.New
IdBeforeExtraction(k) ==
  (fatal = "none" /\ pc[k] = "loop" /\ pos[k] < Len(perm[k])) =>
    ENABLED (Row(k) /\ fatal' = "uuid: failed reading random bytes")

\* the id of the r-th record is not a key of the mapping of kind k
NotAKey(k, r) ==
  (fatal = "none" /\ pc[k] \in {"loop", "flush", "close", "done"}) =>
    RecordId(r) \notin DOMAIN idmap[k]

\* no record with the id of the r-th record yields a fragment of kind k
IdSuppressed(k, r) ==
  \A r2 \in 1..Len(recs) :
    RecordId(r2) = RecordId(r) => Get(k, recs[r2], "") = Nil

\* the iteration on a suppressed record generates an id and stores it
\* nowhere: no row is written, the mapping stays as it is
SuppressedStep(k) ==
  (pc[k] = "loop" /\ fatal' = "none" /\ pos'[k] = pos[k] + 1) =>
    /\ gen'[k] = gen[k] + 1
    /\ Suppressed(k, RangeValue(perm[k], pos[k]) + 1) =>
         /\ Written(k)' = Written(k)
         /\ idmap'[k] = idmap[k]

(***************************************************************************)
(* C26 as stated, its last part: the record id of a record suppressed for  *)
(* a kind is not a key of the mapping the kind's writer returns.           *)
(***************************************************************************)
C26_SuppressedIdNeverKey ==
  \A k \in Kinds : \A r \in 1..Len(recs) :
    Suppressed(k, r) => NotAKey(k, r)

(***************************************************************************)
(* C26, amended.  A fragment writer generates one surrogate id per record  *)
(* it visits, before the extraction and whether or not the record is       *)
(* suppressed; the id generated for a suppressed record enters no row and  *)
(* no entry of the mapping; and the record id of a suppressed record is    *)
(* not a key of the mapping unless another record with the same record id  *)
(* is not suppressed.                                                      *)
(***************************************************************************)
C26_OneIdPerRecord ==
  /\ [](\A k \in Kinds :
          /\ OneIdPerRecord(k)
          /\ IdBeforeExtraction(k)
          /\ \A r \in 1..Len(recs) : IdSuppressed(k, r) => NotAKey(k, r))
  /\ [][\A k \in Kinds : SuppressedStep(k)]_vars

\* a writer has returned from a table of three records of which it wrote
\* one: three ids generated, one row, one key
C26_Witness ==
  /\ fatal = "none"
  /\ Len(recs) = 3
  /\ \E k \in Kinds :
       /\ pc[k] = "done"
       /\ gen[k] = 3
       /\ Len(sink[k]) = 2
       /\ Cardinality(DOMAIN res[k]) = 1
       /\ \E r \in 1..Len(recs) :
            Suppressed(k, r) /\ RecordId(r) \notin DOMAIN res[k]

====
